---- MODULE Spec2Model ----
(***************************************************************************)
(* Model of src/main.go: the Dgraph-backed chat history of the Chat and    *)
(* ClearChat handlers (loadHistoryFromDgraph, saveNewMessagesToDgraph).    *)
(*                                                                         *)
(* Time is counted in milliseconds; a message content is a sequence of     *)
(* text chunks, whitespace being chunks of its own.                        *)
(***************************************************************************)
EXTENDS Integers, Sequences, FiniteSets, TLC

\* ------------------------------------------------------------------ bounds

\* First reading of the wall clock (ms); chosen so that readings cross a
\* second boundary and formatted fractions of every length occur.
ClockStart == 998

\* The wall clock moves at most this far above ClockStart.
MaxClockAdvance == 1

\* Messages the History Repository specification appends at most.
MaxStored == 3

\* Chat invocations of the handler specification.
MaxCalls == 2

\* Chat invocations of the specification of sequential calls.
MaxSeqCalls == 3

\* ------------------------------------------------------------------ inputs

Sessions == {"s1", "s2"}

\* src/main.go:19
defaultSystemPrompt == <<"You are a helpful assistant">>

Whitespace == {" ", "\n", "\t"}

\* What the user says in the first, second, ... Chat invocation.
UserMessages == <<<<"hi">>, <<"again">>, <<"more">>, <<"and more">>, <<"bye">>>>

\* What the model may answer to a conversation ending in userMessage, before
\* trimming: the answers to different user messages differ.
RawReplies(userMessage) == {<<" ", "\n", "re:">> \o userMessage \o <<"\t", "\n">>}

None == [none |-> TRUE]

\* ------------------------------------------------------------- pure helpers

RECURSIVE TrimLeft(_)
TrimLeft(s) ==
    IF s # <<>> /\ Head(s) \in Whitespace THEN TrimLeft(Tail(s)) ELSE s

RECURSIVE TrimRight(_)
TrimRight(s) ==
    IF s # <<>> /\ s[Len(s)] \in Whitespace
    THEN TrimRight(SubSeq(s, 1, Len(s) - 1))
    ELSE s

\* strings.TrimSpace
TrimSpace(s) == TrimRight(TrimLeft(s))

RECURSIVE TrimZeros(_)
TrimZeros(d) ==
    IF d # <<>> /\ d[Len(d)] = 0 THEN TrimZeros(SubSeq(d, 1, Len(d) - 1)) ELSE d

\* msg.Timestamp.Format(time.RFC3339Nano): whole seconds, then the fraction
\* with its trailing zeros removed (no fraction at all on a whole second).
\* The clock has millisecond resolution here, so the fraction has at most
\* three digits.
FormatTimestamp(t) ==
    [sec  |-> t \div 1000,
     frac |-> TrimZeros(<<(t % 1000) \div 100, ((t % 1000) \div 10) % 10, t % 10>>)]

\* json.Unmarshal into time.Time: the fraction is read as written, a missing
\* digit counting as zero.
ParseTimestamp(f) ==
    LET d(i) == IF i <= Len(f.frac) THEN f.frac[i] ELSE 0
    IN  f.sec * 1000 + d(1) * 100 + d(2) * 10 + d(3)

\* chatMessages[i].Timestamp.Before(chatMessages[j].Timestamp)
Before(a, b) == a.timestamp < b.timestamp

\* Where sort.SliceStable leaves m among the already sorted msgs: behind every
\* message that m is not Before.
RECURSIVE InsertStable(_, _)
InsertStable(sorted, m) ==
    IF sorted = <<>> THEN <<m>>
    ELSE IF Before(m, Head(sorted)) THEN <<m>> \o sorted
    ELSE <<Head(sorted)>> \o InsertStable(Tail(sorted), m)

RECURSIVE SortFrom(_, _)
SortFrom(sorted, rest) ==
    IF rest = <<>> THEN sorted
    ELSE SortFrom(InsertStable(sorted, Head(rest)), Tail(rest))

\* A faulty variant of SortSliceStable: the store's order is trusted.
SortSliceUnsorted(msgs) == msgs

\* sort.SliceStable(chatMessages, less by Timestamp.Before)
SortSliceStable(msgs) == SortFrom(<<>>, msgs)

\* Every order in which a set of records can be listed.
RECURSIVE Orderings(_)
Orderings(S) ==
    IF S = {} THEN {<<>>}
    ELSE UNION {{<<x>> \o rest : rest \in Orderings(S \ {x})} : x \in S}

\* ------------------------------------------------------------------- state

VARIABLES
    clock,      \* the wall clock time.Now() reads, in ms
    dgraph,     \* the graph store: session nodes, message nodes, next free uid
    chat,       \* the Chat invocation of each handler slot
    calls,      \* Chat invocations started so far
    clearResp,  \* what the last ClearChat did and returned
    lastLoad,   \* what the last loadHistoryFromDgraph returned, until the next append
    appended    \* per session, the messages appended with success, in append order

vars == <<clock, dgraph, chat, calls, clearResp, lastLoad, appended>>

\* ------------------------------------------------------------- graph store

EmptyStore == [sessionNodes |-> {}, messageNodes |-> {}, nextUID |-> 1]

\* The uid Dgraph gives the k-th blank node of a mutation: a blank node names
\* a node inside one mutation only, and every mutation's blank nodes are new
\* nodes.
BlankNodeUID(db, k) == db.nextUID + k

\* A faulty variant of TargetSessionUIDs: the session is taken to have one node, the
\* first that matches.
TargetSessionUIDsFirst(db, sessionID) ==
    LET uids == {n.uid : n \in {x \in db.sessionNodes : x.sessionID = sessionID}}
    IN  {u \in uids : \A v \in uids : u <= v}

\* var(func: eq(ChatSession.sessionID, $sessionID)) { TARGET_SESSION_UID as uid }
TargetSessionUIDs(db, sessionID) ==
    {n.uid : n \in {x \in db.sessionNodes : x.sessionID = sessionID}}

\* messages(func: type(ChatMessage)) @filter(uid_in(in_session, uid(TARGET_SESSION_UID)))
QueryMessages(db, sessionID) ==
    {m \in db.messageNodes : m.in_session \in TargetSessionUIDs(db, sessionID)}

\* A faulty variant of CommitSetJson: the session's earlier messages are replaced.
CommitSetJsonReplacing(db, sessionID, newMessages) ==
    LET kept == [db EXCEPT !.messageNodes = @ \ QueryMessages(db, sessionID)]
        sessionUID == BlankNodeUID(db, 0)
        msgUID(i)  == BlankNodeUID(db, i)
    IN  [sessionNodes |-> kept.sessionNodes \cup
             {[uid         |-> sessionUID,
               sessionID   |-> sessionID,
               has_message |-> {msgUID(i) : i \in 1..Len(newMessages)}]},
         messageNodes |-> kept.messageNodes \cup
             {[uid        |-> msgUID(i),
               role       |-> newMessages[i].role,
               content    |-> newMessages[i].content,
               timestamp  |-> FormatTimestamp(newMessages[i].timestamp),
               in_session |-> sessionUID] : i \in 1..Len(newMessages)},
         nextUID      |-> db.nextUID + Len(newMessages) + 1]

\* The SetJson payload of saveNewMessagesToDgraph, committed: one ChatSession
\* node "_:session" and one ChatMessage node "_:msg<i>" per message, linked
\* both ways.
CommitSetJson(db, sessionID, newMessages) ==
    LET sessionUID == BlankNodeUID(db, 0)
        msgUID(i)  == BlankNodeUID(db, i)
    IN  [sessionNodes |-> db.sessionNodes \cup
             {[uid         |-> sessionUID,
               sessionID   |-> sessionID,
               has_message |-> {msgUID(i) : i \in 1..Len(newMessages)}]},
         messageNodes |-> db.messageNodes \cup
             {[uid        |-> msgUID(i),
               role       |-> newMessages[i].role,
               content    |-> newMessages[i].content,
               timestamp  |-> FormatTimestamp(newMessages[i].timestamp),
               in_session |-> sessionUID] : i \in 1..Len(newMessages)},
         nextUID      |-> db.nextUID + Len(newMessages) + 1]

\* A faulty variant of ExecuteMutations: a failed mutation leaves its first message.
ExecuteMutationsPartial(db, sessionID, newMessages, ok) ==
    IF ok THEN CommitSetJson(db, sessionID, newMessages)
    ELSE CommitSetJson(db, sessionID, SubSeq(newMessages, 1, 1))

\* dgraph.ExecuteMutations with one mutation: it is committed whole, or it
\* fails and the store is as before.
ExecuteMutations(db, sessionID, newMessages, ok) ==
    IF ok THEN CommitSetJson(db, sessionID, newMessages) ELSE db

\* The "messages" arrays the query may answer with. orderasc is asked for, but
\* the code does not rely on it (lines 194-196), and neither does the model.
QueryResponses(db, sessionID) == Orderings(QueryMessages(db, sessionID))

\* The loop of lines 177-185 over the parsed response.
RECURSIVE ToChatMessages(_)
ToChatMessages(resp) ==
    IF resp = <<>> THEN <<>>
    ELSE <<[uid       |-> Head(resp).uid,
            role      |-> Head(resp).role,
            content   |-> Head(resp).content,
            timestamp |-> ParseTimestamp(Head(resp).timestamp)]>>
         \o ToChatMessages(Tail(resp))

\* The outcomes of the query and of parsing its response.
LoadOutcomes == {"ok", "query error", "unmarshal error"}

\* loadHistoryFromDgraph, given the store's answer: (messages, err).
LoadResult(outcome, resp) ==
    IF outcome = "ok"
    THEN [messages |-> SortSliceStable(ToChatMessages(resp)), err |-> "nil"]
    ELSE [messages |-> <<>>, err |-> outcome]

\* ---------------------------------------------------- the History Repository

\* Timestamps a caller of saveNewMessagesToDgraph sets: either side of a
\* second boundary.
CallerTimestamps == {ClockStart + 1, ClockStart + 2}

\* Messages a caller of saveNewMessagesToDgraph passes.
CallerMessages ==
    {[role |-> "user", content |-> <<"hi">>, timestamp |-> t] : t \in CallerTimestamps}
    \cup {[role |-> "assistant", content |-> <<"sure">>, timestamp |-> t] :
              t \in CallerTimestamps}

Batches == {<<m>> : m \in CallerMessages}
           \cup {<<m, n>> : m \in CallerMessages, n \in CallerMessages}

\* Handler slots: the host runs at most this many Chat invocations at a time.
Handlers == {1, 2}

NoMessage == [uid |-> 0, role |-> "", content |-> <<>>, timestamp |-> 0]

\* A handler slot with no invocation in it.
Idle ==
    [pc                     |-> "idle",
     sessionID              |-> "",
     userMessage            |-> <<>>,
     storedAtStart          |-> {},
     loadErr                |-> "nil",
     loadedMessages         |-> <<>>,
     userMessageToSave      |-> NoMessage,
     modelMessages          |-> <<>>,
     assistantContent       |-> <<>>,
     assistantMessageToSave |-> NoMessage,
     saveErr                |-> "nil",
     savedUIDs              |-> <<>>,
     result                 |-> None]

Init ==
    /\ clock = ClockStart
    /\ dgraph = EmptyStore
    /\ chat = [h \in Handlers |-> Idle]
    /\ calls = 0
    /\ clearResp = None
    /\ lastLoad = None
    /\ appended = [s \in Sessions |-> <<>>]

\* The append log after saveNewMessagesToDgraph returned err = nil or not.
Logged(sessionID, newMessages, ok) ==
    IF ok THEN [appended EXCEPT ![sessionID] = @ \o newMessages] ELSE appended

\* saveNewMessagesToDgraph(ctx, sessionID, newMessages)
RepoAppend ==
    \E sessionID \in Sessions, newMessages \in Batches, ok \in BOOLEAN :
        /\ Cardinality(dgraph.messageNodes) + Len(newMessages) <= MaxStored
        /\ dgraph' = ExecuteMutations(dgraph, sessionID, newMessages, ok)
        /\ appended' = Logged(sessionID, newMessages, ok)
        /\ lastLoad' = None
        /\ UNCHANGED <<clock, chat, calls, clearResp>>

\* loadHistoryFromDgraph(ctx, sessionID)
RepoLoad ==
    \E sessionID \in Sessions, outcome \in LoadOutcomes :
        \E resp \in QueryResponses(dgraph, sessionID) :
            /\ lastLoad' = [sessionID |-> sessionID] @@ LoadResult(outcome, resp)
            /\ UNCHANGED <<clock, dgraph, chat, calls, clearResp, appended>>

RepoNext == RepoAppend \/ RepoLoad

SpecRepo == Init /\ [][RepoNext]_vars

\* ------------------------------------------------------------- the handlers

\* time.Now().UTC()
Now == clock

Tick ==
    /\ clock < ClockStart + MaxClockAdvance
    /\ clock' = clock + 1
    /\ UNCHANGED <<dgraph, chat, calls, clearResp, lastLoad, appended>>

\* A faulty variant of HistoryForLLM: no system prompt for an empty history.
HistoryForLLMNoPrompt(loadedMessages, now) == loadedMessages

\* Lines 58-68: the loaded history, or the default system prompt alone when
\* nothing was loaded.
HistoryForLLM(loadedMessages, now) ==
    IF Len(loadedMessages) = 0
    THEN <<[uid |-> 0, role |-> "system", content |-> defaultSystemPrompt,
            timestamp |-> now]>>
    ELSE loadedMessages

\* Lines 80-90: the messages handed to the model; a role the switch does not
\* name is left out.
RECURSIVE ModelMessagesForOpenAI(_)
ModelMessagesForOpenAI(history) ==
    IF history = <<>> THEN <<>>
    ELSE (IF Head(history).role \in {"system", "user", "assistant"}
          THEN <<[role |-> Head(history).role, content |-> Head(history).content]>>
          ELSE <<>>)
         \o ModelMessagesForOpenAI(Tail(history))

\* Line 113: time.Now().UTC().Add(time.Millisecond)
AssistantTimestamp(userMessageToSave, now) == now + 1

\* The slot an arriving invocation takes: the lowest free one (the slots are
\* interchangeable).
FreeSlot(h) ==
    /\ chat[h].pc = "idle"
    /\ \A g \in Handlers : g < h => chat[g].pc # "idle"

\* Lines 43-46: models.GetModel fails and Chat returns the error.
ChatGetModelFails(h, maxCalls) ==
    /\ FreeSlot(h)
    /\ calls < maxCalls
    /\ \E sessionID \in Sessions, userMessage \in {UserMessages[calls + 1]} :
          chat' = [chat EXCEPT ![h] =
              [Idle EXCEPT !.pc = "done", !.sessionID = sessionID,
                           !.userMessage = userMessage,
                           !.result = [content |-> None, err |-> "error getting model"]]]
    /\ calls' = calls + 1
    /\ UNCHANGED <<clock, dgraph, clearResp, lastLoad, appended>>

\* Lines 42-56: Chat(sessionID, userMessage) is invoked and loads the history;
\* a failed load is logged and counts as an empty history.
ChatLoad(h, outcomes, maxCalls) ==
    /\ FreeSlot(h)
    /\ calls < maxCalls
    /\ \E sessionID \in Sessions, userMessage \in {UserMessages[calls + 1]},
          outcome \in outcomes :
          \E resp \in QueryResponses(dgraph, sessionID) :
              LET loaded == LoadResult(outcome, resp)
              IN  chat' = [chat EXCEPT ![h] =
                      [Idle EXCEPT !.pc = "loaded", !.sessionID = sessionID,
                                   !.userMessage = userMessage,
                                   !.storedAtStart =
                                       {m.uid : m \in QueryMessages(dgraph, sessionID)},
                                   !.loadErr = loaded.err,
                                   !.loadedMessages =
                                       IF loaded.err # "nil" THEN <<>> ELSE loaded.messages]]
    /\ calls' = calls + 1
    /\ UNCHANGED <<clock, dgraph, clearResp, lastLoad, appended>>

\* Lines 58-90: the history for the model, the user message stamped with the
\* clock, and the projection to the model's message types.
ChatPrepare(h) ==
    /\ chat[h].pc = "loaded"
    /\ LET userMessageToSave ==
               [uid |-> 0, role |-> "user", content |-> chat[h].userMessage,
                timestamp |-> Now]
           currentChatHistoryForLLM ==
               HistoryForLLM(chat[h].loadedMessages, Now) \o <<userMessageToSave>>
       IN  chat' = [chat EXCEPT ![h].pc = "prepared",
                                ![h].userMessageToSave = userMessageToSave,
                                ![h].modelMessages =
                                    ModelMessagesForOpenAI(currentChatHistoryForLLM)]
    /\ UNCHANGED <<clock, dgraph, calls, clearResp, lastLoad, appended>>

\* Lines 98-107: model.CreateInput or model.Invoke fails and Chat returns the error.
ChatModelFails(h) ==
    /\ chat[h].pc = "prepared"
    /\ \E err \in {"error creating model input", "error invoking model"} :
          chat' = [chat EXCEPT ![h].pc = "done",
                               ![h].result = [content |-> None, err |-> err]]
    /\ UNCHANGED <<clock, dgraph, calls, clearResp, lastLoad, appended>>

\* Lines 98-115: the model answers; the answer is trimmed and the assistant
\* message is stamped.
ChatInvoke(h) ==
    /\ chat[h].pc = "prepared"
    /\ \E raw \in RawReplies(chat[h].userMessage) :
          chat' = [chat EXCEPT ![h].pc = "replied",
                               ![h].assistantContent = TrimSpace(raw),
                               ![h].assistantMessageToSave =
                                   [uid |-> 0, role |-> "assistant",
                                    content |-> TrimSpace(raw),
                                    timestamp |->
                                        AssistantTimestamp(chat[h].userMessageToSave, Now)]]
    /\ UNCHANGED <<clock, dgraph, calls, clearResp, lastLoad, appended>>

\* Lines 119-127: the save's error is logged and the reply is returned.
ChatResult(assistantContent, saveErr) ==
    [content |-> assistantContent, err |-> "nil"]

\* Lines 117-127: the two new messages are saved in one mutation, and the
\* reply is returned whether or not the save went through.
ChatSave(h, oks) ==
    /\ chat[h].pc = "replied"
    /\ \E ok \in oks :
          LET newMessagesToPersist ==
                  <<chat[h].userMessageToSave, chat[h].assistantMessageToSave>>
              saveErr == IF ok THEN "nil" ELSE "dgraph.ExecuteMutations failed"
          IN  /\ dgraph' = ExecuteMutations(dgraph, chat[h].sessionID,
                                            newMessagesToPersist, ok)
              /\ appended' = Logged(chat[h].sessionID,
                                    [i \in 1..2 |->
                                        [role      |-> newMessagesToPersist[i].role,
                                         content   |-> newMessagesToPersist[i].content,
                                         timestamp |-> newMessagesToPersist[i].timestamp]],
                                    ok)
              /\ chat' = [chat EXCEPT
                     ![h].pc = "done",
                     ![h].saveErr = saveErr,
                     ![h].savedUIDs = IF ok THEN <<BlankNodeUID(dgraph, 1),
                                                   BlankNodeUID(dgraph, 2)>>
                                      ELSE <<>>,
                     ![h].result = ChatResult(chat[h].assistantContent, saveErr)]
    /\ lastLoad' = None
    /\ UNCHANGED <<clock, calls, clearResp>>

\* The handler has returned; its slot is free for the next invocation.
ChatReturn(h) ==
    /\ chat[h].pc = "done"
    /\ chat' = [chat EXCEPT ![h] = Idle]
    /\ UNCHANGED <<clock, dgraph, calls, clearResp, lastLoad, appended>>

\* The mutation ClearChat sends: nothing set, nothing deleted.
EmptyMutation == [SetJson |-> <<>>, DelJson |-> <<>>]

\* Lines 257-282: ClearChat(sessionID) sends an empty mutation and reports on
\* it; no record is looked up or deleted.
ClearChat ==
    \E sessionID \in Sessions, ok \in BOOLEAN :
        /\ clearResp' =
               [sessionID |-> sessionID,
                mutations |-> <<EmptyMutation>>,
                Success   |-> ok,
                Message   |-> IF ok
                              THEN <<"Chat history cleared successfully from Dgraph.">>
                              ELSE <<"Failed to clear chat history from Dgraph: ",
                                     "dgraph.ExecuteMutations failed">>]
        /\ UNCHANGED <<clock, dgraph, chat, calls, lastLoad, appended>>

Next ==
    \/ Tick
    \/ \E h \in Handlers :
          \/ ChatGetModelFails(h, MaxCalls)
          \/ ChatLoad(h, LoadOutcomes, MaxCalls)
          \/ ChatPrepare(h)
          \/ ChatModelFails(h)
          \/ ChatInvoke(h)
          \/ ChatSave(h, BOOLEAN)
          \/ ChatReturn(h)

Spec == Init /\ [][Next]_vars

\* One Chat invocation after the other, every store and model call succeeding.
SeqNext ==
    \/ Tick
    \/ ChatLoad(1, {"ok"}, MaxSeqCalls)
    \/ ChatPrepare(1)
    \/ ChatInvoke(1)
    \/ ChatSave(1, {TRUE})
    \/ ChatReturn(1)

SpecSeq == Init /\ [][SeqNext]_vars

\* ClearChat against a store that saveNewMessagesToDgraph fills.
ClearNext == RepoAppend \/ ClearChat

SpecClear == Init /\ [][ClearNext]_vars

\* ------------------------------------------------- claims on the repository

Range(seq) == {seq[i] : i \in 1..Len(seq)}

RoleContent(msgs) ==
    [i \in 1..Len(msgs) |-> [role |-> msgs[i].role, content |-> msgs[i].content]]

\* How often the role/content pair p occurs in msgs.
Occurrences(msgs, p) == Cardinality({i \in 1..Len(msgs) : RoleContent(msgs)[i] = p})

SamePairs(a, b) ==
    /\ Len(a) = Len(b)
    /\ \A i \in 1..Len(a) : Occurrences(a, RoleContent(a)[i]) = Occurrences(b, RoleContent(a)[i])

NonDecreasing(msgs) ==
    \A i, j \in 1..Len(msgs) : i < j => msgs[i].timestamp <= msgs[j].timestamp

StrictlyIncreasing(msgs) ==
    \A i, j \in 1..Len(msgs) : i < j => msgs[i].timestamp < msgs[j].timestamp

Loaded == lastLoad # None /\ lastLoad.err = "nil"

\* C3, as stated: a successful load after appends returns the appended
\* role/content pairs in the order in which they were appended, whatever
\* their timestamps.
C3_RoundTripAppendOrder ==
    Loaded => RoleContent(lastLoad.messages) = RoleContent(appended[lastLoad.sessionID])

\* C3, amended: a successful load after appends returns exactly the appended
\* role/content pairs, each as often as it was appended, in non-decreasing
\* timestamp order; that is the append order whenever the appended timestamps
\* strictly increase.
C3_RoundTripByTimestamp ==
    Loaded =>
        LET log == appended[lastLoad.sessionID]
        IN  /\ SamePairs(lastLoad.messages, log)
            /\ NonDecreasing(lastLoad.messages)
            /\ StrictlyIncreasing(log) => RoleContent(lastLoad.messages) = RoleContent(log)

\* Two batches were appended to one session, timestamps rising, and loaded.
C3_Witness ==
    /\ Loaded
    /\ Len(lastLoad.messages) = 2
    /\ StrictlyIncreasing(appended[lastLoad.sessionID])
    /\ Cardinality(TargetSessionUIDs(dgraph, lastLoad.sessionID)) = 2

\* C8: whatever the appends and whatever order the store answers in, a
\* successful loadHistoryFromDgraph returns the session's messages in
\* non-decreasing timestamp order.
C8_LoadSortedByTimestamp ==
    Loaded =>
        \A i \in 1..Len(lastLoad.messages) : \A j \in 1..Len(lastLoad.messages) :
            i < j => ~Before(lastLoad.messages[j], lastLoad.messages[i])

\* A load returned a message appended later (higher uid) before one appended
\* earlier: the sort went against the append order.
C8_Witness ==
    /\ Loaded
    /\ \E i, j \in 1..Len(lastLoad.messages) :
          /\ i < j
          /\ lastLoad.messages[i].uid > lastLoad.messages[j].uid
          /\ lastLoad.messages[i].timestamp < lastLoad.messages[j].timestamp

\* C9: the store holds at most one session record per sessionID.
C9_OneSessionNodePerID ==
    \A s \in Sessions : Cardinality(TargetSessionUIDs(dgraph, s)) <= 1

\* --------------------------------------------------- claims on the handlers

\* The histories a successful loadHistoryFromDgraph of sessionID may return.
PossibleLoads(db, sessionID) ==
    {LoadResult("ok", resp).messages : resp \in QueryResponses(db, sessionID)}

\* The model answered the invocation in slot h.
Replied(h) == chat[h].assistantMessageToSave.role = "assistant"

\* The invocation in slot h has saved its turn.
Persisted(h) == chat[h].pc = "done" /\ Replied(h) /\ chat[h].saveErr = "nil"

\* C1: a Chat call that persists its turn gives the user message and the
\* assistant message the same timestamp, and any later load of the session
\* has the turn's assistant message after every message that was stored for
\* the session before the turn.
C1_TurnTimestamps ==
    \A h \in Handlers :
        Persisted(h) =>
            /\ chat[h].userMessageToSave.timestamp
                   = chat[h].assistantMessageToSave.timestamp
            /\ \A L \in PossibleLoads(dgraph, chat[h].sessionID) :
                   \A i, j \in 1..Len(L) :
                       (L[i].uid = chat[h].savedUIDs[2] /\ L[j].uid \in chat[h].storedAtStart)
                           => j < i

\* C2: of sequential, successful Chat calls on a session, the first sends the
\* model [system defaultSystemPrompt, user m1], and the k-th sends the earlier
\* turns in call order, user before assistant, then user mk, with no system
\* message.
C2_SequentialTurnOrder ==
    \A h \in Handlers :
        chat[h].pc \in {"prepared", "replied"} =>
            LET turns == RoleContent(appended[chat[h].sessionID])
                mk    == [role |-> "user", content |-> chat[h].userMessage]
            IN  chat[h].modelMessages =
                    IF turns = <<>>
                    THEN <<[role |-> "system", content |-> defaultSystemPrompt], mk>>
                    ELSE turns \o <<mk>>

\* C4: when the history load fails, the model is sent exactly the default
\* system message and the new user message, and once the model has answered
\* Chat returns that answer with no error.
C4_LoadFailureFallsBack ==
    \A h \in Handlers :
        chat[h].loadErr # "nil" =>
            /\ chat[h].pc \in {"prepared", "replied", "done"} =>
                   chat[h].modelMessages =
                       <<[role |-> "system", content |-> defaultSystemPrompt],
                         [role |-> "user", content |-> chat[h].userMessage]>>
            /\ (chat[h].pc = "done" /\ Replied(h)) =>
                   /\ chat[h].result.err = "nil"
                   /\ chat[h].result.content = chat[h].assistantContent
                   /\ chat[h].result.content \in
                          {TrimSpace(raw) : raw \in RawReplies(chat[h].userMessage)}

\* A call whose load failed although the session had stored messages has
\* returned a reply.
C4_Witness ==
    \E h \in Handlers :
        /\ chat[h].pc = "done"
        /\ chat[h].loadErr # "nil"
        /\ chat[h].storedAtStart # {}
        /\ Replied(h)
        /\ chat[h].result.err = "nil"

\* The step in which the save of slot h's turn fails.
SaveFails(h) ==
    chat[h].pc = "replied" /\ chat'[h].pc = "done" /\ chat'[h].saveErr # "nil"

\* C5: when the save of a turn fails, Chat still returns the reply with no
\* error, the store holds no message of the turn, and a load of the session
\* returns what it returned before.
C5_FailedSaveLeavesNoTrace ==
    [][\A h \in Handlers :
          SaveFails(h) =>
              /\ chat'[h].result = [content |-> chat[h].assistantContent, err |-> "nil"]
              /\ dgraph'.messageNodes = dgraph.messageNodes
              /\ PossibleLoads(dgraph', chat[h].sessionID)
                     = PossibleLoads(dgraph, chat[h].sessionID)]_vars

\* A save has failed for a session that had stored messages, and the reply
\* was returned.
C5_Witness ==
    \E h \in Handlers :
        /\ chat[h].pc = "done"
        /\ chat[h].saveErr # "nil"
        /\ chat[h].storedAtStart # {}
        /\ chat[h].result.err = "nil"

\* Slots g and h ran Chat on one session, each loaded the same history with
\* success, so neither load saw the other's turn, and each saved its turn.
Diverged(g, h) ==
    /\ g # h
    /\ chat[g].sessionID = chat[h].sessionID
    /\ Persisted(g) /\ Persisted(h)
    /\ chat[g].loadErr = "nil" /\ chat[h].loadErr = "nil"
    /\ chat[g].loadedMessages = chat[h].loadedMessages

\* C10: when two Chat invocations on one session have both loaded the same
\* history and both saved, neither sent the model the other's user message,
\* both returned their reply without error, and the store holds the four
\* messages of both turns beside what was loaded.
C10_ConcurrentTurnsBothStored ==
    \A g, h \in Handlers :
        Diverged(g, h) =>
            LET stored == {m.uid : m \in QueryMessages(dgraph, chat[h].sessionID)}
                new    == {chat[g].savedUIDs[1], chat[g].savedUIDs[2],
                           chat[h].savedUIDs[1], chat[h].savedUIDs[2]}
            IN  /\ \A i \in 1..Len(chat[h].modelMessages) :
                       chat[h].modelMessages[i]
                           # [role |-> "user", content |-> chat[g].userMessage]
                /\ chat[g].result.err = "nil" /\ chat[h].result.err = "nil"
                /\ Cardinality(new) = 4
                /\ new \subseteq stored
                /\ new \cap {m.uid : m \in Range(chat[h].loadedMessages)} = {}
                /\ Cardinality(stored) >= Len(chat[h].loadedMessages) + 4

\* Two invocations on one session have diverged.
C10_Witness ==
    \E g, h \in Handlers :
        /\ Diverged(g, h)
        /\ chat[g].userMessage # chat[h].userMessage
        /\ Cardinality(QueryMessages(dgraph, chat[h].sessionID))
               = Len(chat[h].loadedMessages) + 4

\* ---------------------------------------------------- claims on ClearChat

\* The step in which ClearChat(sessionID) runs and returns.
Clears(sessionID) == clearResp' # clearResp /\ clearResp'.sessionID = sessionID

Records(db) == {n.uid : n \in db.sessionNodes} \cup {m.uid : m \in db.messageNodes}

\* C6: ClearChat on a session with N stored messages deletes exactly N+1
\* records, returns success with a message that mentions N, and leaves the
\* session without stored messages (the store answering its calls).
C6_ClearDeletesSessionAndMessages ==
    [][\A s \in Sessions :
          LET N == Cardinality(QueryMessages(dgraph, s))
          IN  (Clears(s) /\ N > 0 /\ clearResp'.Success) =>
                  /\ Cardinality(Records(dgraph) \ Records(dgraph')) = N + 1
                  /\ \E i \in 1..Len(clearResp'.Message) :
                         clearResp'.Message[i] = ToString(N)
                  /\ QueryMessages(dgraph', s) = {}]_vars

\* C7: ClearChat on a session with no stored records returns success with a
\* "no history found" message and sends the store no mutation.
C7_ClearOfNothingSendsNoMutation ==
    [][\A s \in Sessions :
          (Clears(s) /\ TargetSessionUIDs(dgraph, s) = {}) =>
              /\ clearResp'.Success
              /\ clearResp'.Message = <<"no history found">>
              /\ clearResp'.mutations = <<>>]_vars

====
